---- MODULE Spec2Model ----
(***************************************************************************)
(* A model of start_server.py, the vintage terminal gateway: one thread    *)
(* per accepted connection runs handle_client, which frames prompts out of *)
(* the received bytes, starts the spinner thread, streams the backend's    *)
(* answer to the connection and keeps the chat history.                    *)
(*                                                                         *)
(* Text is a sequence of character codes; bytes are numbers 0..255.        *)
(***************************************************************************)
EXTENDS Integers, Sequences, FiniteSets, TLC

VARIABLES
    active_platform,       \* module global, fixed once the module is loaded
    stop_spinner,          \* module global threading.Event (TRUE: set)
    chat,                  \* module global gemini chat handle: the turns it holds
    clients,               \* the connections the environment will open
    pending,               \* per connection: bytes the client has yet to deliver
    conn,                  \* per connection: "open" or "broken"
    pc,                    \* per session: position of handle_client
    input_buffer,          \* per session: handle_client's input_buffer
    prompt,                \* per session: the prompt of the running exchange
    chat_history,          \* per session: handle_client's chat_history
    first_chunk_received,  \* per session
    full_response_text,    \* per session
    chunk_text,            \* per session: text of the chunk being handled
    nevents,               \* per session: events the running stream has yielded
    sent,                  \* per session: the conversation given to the backend
    spinner,               \* per session: position of the spin_animation thread
    wire,                  \* per connection: writes since the last extraction
    stream,                \* framer runs: the whole byte sequence of the client
    extracted,             \* framer runs: the prompts extracted so far
    logged,                \* per session: line 402 was printed in the exchange
                           \* whose writes wire holds
    env,                   \* the environment the module is loaded in
    proc,                  \* the process: "loading", "loaded", "main",
                           \* "listening" or "exited"
    fragment,              \* sanitizer runs: the text fragment
    formatted              \* sanitizer runs: its successive format_chunk results

vars == <<active_platform, stop_spinner, chat, clients, pending, conn, pc,
          input_buffer, prompt, chat_history, first_chunk_received,
          full_response_text, chunk_text, nevents, sent, spinner, wire,
          stream, extracted, logged, env, proc, fragment, formatted>>

-----------------------------------------------------------------------------
(* Bounds of the model. *)

\* events one backend stream yields at most
MaxEvents == 2
\* length of the fragments the sanitizer runs draw
MaxFragmentLen == 4
\* times the sanitizer runs apply format_chunk
MaxPasses == 2
\* length of the byte sequences the framer runs draw
MaxStreamLen == 6
\* prompts the client of the history runs types
HistPrompts == 26

(* Program constants. *)
BUFFER_SIZE == 4096

Sessions == {1, 2}
Platforms == {"gemini", "openai", "anthropic"}

\* '\r' and '\n'
CR == 13
LF == 10
\* '\r\n\r\n' and '\n\n', the two completion signals
CRLFCRLF == <<CR, LF, CR, LF>>
LFLF == <<LF, LF>>
\* '> ', the prompt marker
MARKER == <<62, 32>>
\* what str.strip() removes from an ASCII string
Whitespace == {9, 10, 11, 12, 13, 28, 29, 30, 31, 32}

-----------------------------------------------------------------------------
(* Text helpers, as Python computes them. *)

Min(a, b) == IF a < b THEN a ELSE b

\* s[from:] with a 0-based index
Drop(s, from) == SubSeq(s, from + 1, Len(s))
\* s[:to] with a 0-based index
Take(s, to) == SubSeq(s, 1, Min(to, Len(s)))

\* s.startswith(p)
startswith(s, p) == Len(s) >= Len(p) /\ SubSeq(s, 1, Len(p)) = p

\* s.find(p): the 0-based index of the first occurrence, -1 when there is none
find(s, p) ==
    LET hits == {k \in 0..(Len(s) - Len(p)) : SubSeq(s, k + 1, k + Len(p)) = p}
    IN  IF hits = {} THEN -1 ELSE CHOOSE k \in hits : \A j \in hits : k <= j

\* s.strip()
strip(s) ==
    LET keep == {k \in 1..Len(s) : s[k] \notin Whitespace}
    IN  IF keep = {} THEN <<>>
        ELSE LET lo == CHOOSE k \in keep : \A j \in keep : k <= j
                 hi == CHOOSE k \in keep : \A j \in keep : k >= j
             IN  SubSeq(s, lo, hi)

\* data.decode('ascii', errors='ignore'): bytes outside ASCII are dropped
decode(data) == SelectSeq(data, LAMBDA b : b < 128)

-----------------------------------------------------------------------------
(* format_chunk (lines 184-207). *)

\* '*'
STAR == 42
\* '&amp;', '&lt;' and '&gt;'
AMP_ENTITY == <<38, 97, 109, 112, 59>>
LT_ENTITY == <<38, 108, 116, 59>>
GT_ENTITY == <<38, 103, 116, 59>>

\* s.replace(old, new): every occurrence, leftmost first, none overlapping
RECURSIVE replace(_, _, _)
replace(s, old, new) ==
    IF Len(s) < Len(old) THEN s
    ELSE IF startswith(s, old)
    THEN new \o replace(Drop(s, Len(old)), old, new)
    ELSE <<s[1]>> \o replace(Drop(s, 1), old, new)

\* Where a match of \*{d}(\S[^*]*\S)\*{d} that starts at the head of s ends
\* (0 when there is none): d stars, a non-blank, the longest run of non-stars
\* that lets the rest match, a non-blank, d stars.
MatchEnd(s, d) ==
    LET stars(from) == \A j \in from..(from + d - 1) :
                          j <= Len(s) /\ s[j] = STAR
        a == d + 1
        fits == {k \in 0..Len(s) :
                   /\ a + k + 1 + d <= Len(s)
                   /\ \A j \in (a + 1)..(a + k) : s[j] # STAR
                   /\ s[a + k + 1] \notin Whitespace
                   /\ stars(a + k + 2)}
    IN  IF stars(1) /\ a <= Len(s) /\ s[a] \notin Whitespace /\ fits # {}
        THEN (CHOOSE k \in fits : \A j \in fits : k >= j) + a + 1 + d
        ELSE 0

\* re.sub(r'\*{d}(\S[^*]*\S)\*{d}', r'\1', s): the matches found from left
\* to right, each replaced by its group
RECURSIVE sub_emphasis(_, _)
sub_emphasis(s, d) ==
    IF s = <<>> THEN <<>>
    ELSE LET e == MatchEnd(s, d)
         IN  IF e # 0
             THEN SubSeq(s, d + 1, e - d) \o sub_emphasis(Drop(s, e), d)
             ELSE <<s[1]>> \o sub_emphasis(Drop(s, 1), d)

format_chunk(text_chunk) ==
    IF text_chunk = <<>> THEN <<>>
    ELSE LET bold == sub_emphasis(text_chunk, 2)
             italic == sub_emphasis(bold, 1)
             code == replace(italic, <<96>>, <<>>)
             quote == replace(code, <<62>>, <<>>)
             entities == replace(replace(replace(quote, AMP_ENTITY, <<38>>),
                                         LT_ENTITY, <<60>>),
                                 GT_ENTITY, <<62>>)
         IN  replace(replace(replace(entities, <<CR, LF>>, <<LF>>),
                             <<CR>>, <<LF>>),
                     <<LF>>, <<CR, LF>>)

-----------------------------------------------------------------------------
(* The input framer: lines 244-273 of handle_client. *)

\* buf[:end_index].strip(), less a leading '> '
ExtractPrompt(buf, end_index) ==
    LET p == strip(Take(buf, end_index))
    IN  IF startswith(p, MARKER) THEN Drop(p, 2) ELSE p

\* A framer that splits at whichever signal comes first
FrameEarliest(buf) ==
    LET end_index_crlf == find(buf, CRLFCRLF)
        end_index_lf == find(buf, LFLF)
    IN  IF end_index_crlf # -1 /\ (end_index_lf = -1 \/ end_index_crlf < end_index_lf)
        THEN [found |-> TRUE,
              prompt |-> ExtractPrompt(buf, end_index_crlf),
              rest |-> Drop(buf, end_index_crlf + 4)]
        ELSE IF end_index_lf # -1
        THEN [found |-> TRUE,
              prompt |-> ExtractPrompt(buf, end_index_lf),
              rest |-> Drop(buf, end_index_lf + 2)]
        ELSE [found |-> FALSE, prompt |-> <<>>, rest |-> buf]

\* A framer that forgets newline_sequence_len when it cuts the buffer
FrameKeepsSignal(buf) ==
    LET end_index_crlf == find(buf, CRLFCRLF)
        end_index_lf == find(buf, LFLF)
    IN  IF end_index_crlf # -1
        THEN [found |-> TRUE,
              prompt |-> ExtractPrompt(buf, end_index_crlf),
              rest |-> Drop(buf, end_index_crlf + 2)]
        ELSE IF end_index_lf # -1
        THEN [found |-> TRUE,
              prompt |-> ExtractPrompt(buf, end_index_lf),
              rest |-> Drop(buf, end_index_lf + 1)]
        ELSE [found |-> FALSE, prompt |-> <<>>, rest |-> buf]

\* A framer that throws away what follows the signal
FrameDropsRest(buf) ==
    LET end_index_crlf == find(buf, CRLFCRLF)
        end_index_lf == find(buf, LFLF)
    IN  IF end_index_crlf # -1
        THEN [found |-> TRUE,
              prompt |-> ExtractPrompt(buf, end_index_crlf),
              rest |-> <<>>]
        ELSE IF end_index_lf # -1
        THEN [found |-> TRUE,
              prompt |-> ExtractPrompt(buf, end_index_lf),
              rest |-> <<>>]
        ELSE [found |-> FALSE, prompt |-> <<>>, rest |-> buf]

\* What one pass over the buffer finds: found is "prompt is not None", rest is
\* the buffer the pass leaves.
Frame(buf) ==
    LET end_index_crlf == find(buf, CRLFCRLF)
        end_index_lf == find(buf, LFLF)
    IN  IF end_index_crlf # -1
        THEN [found |-> TRUE,
              prompt |-> ExtractPrompt(buf, end_index_crlf),
              rest |-> Drop(buf, end_index_crlf + 4)]
        ELSE IF end_index_lf # -1
        THEN [found |-> TRUE,
              prompt |-> ExtractPrompt(buf, end_index_lf),
              rest |-> Drop(buf, end_index_lf + 2)]
        ELSE [found |-> FALSE, prompt |-> <<>>, rest |-> buf]

\* A test that lets the empty prompt through
TruthyAlways(p) == p = p

\* "if prompt:" of line 275
Truthy(p) == p # <<>>

-----------------------------------------------------------------------------
(* The connection and what is written to it. *)

IndicatorTags == {"glyph", "bs", "clear"}

\* The log of the writes since the last extraction. The spinner's frames repeat
\* without end: a frame written right after a frame is logged once.
Write(w, tag) ==
    LET v == Append(w, tag)
        n == Len(v)
    IN  IF n >= 4 /\ SubSeq(v, n - 3, n) = <<"glyph", "bs", "glyph", "bs">>
        THEN SubSeq(v, 1, n - 2)
        ELSE v

\* One turn of a conversation; sid is the session whose exchange produced it
\* (not a field of the program's records).
Turn(role, content, s) == [role |-> role, content |-> content, sid |-> s]

\* The fragments' texts
Texts == {<<120>>}

\* What a backend stream yields: a chunk of text (possibly ""), and for
\* anthropic also events that are no content_block_delta.
Events(platform) ==
    {[type |-> "delta", text |-> t] : t \in Texts \cup {<<>>}}
        \cup (IF platform = "anthropic"
              THEN {[type |-> "other", text |-> <<>>]} ELSE {})

\* lines 346-354: the messages list of the anthropic branch
anthropic_messages(history, p, s) ==
    SelectSeq(history, LAMBDA m : m.role \in {"user", "assistant"})
        \o <<Turn("user", p, s)>>

-----------------------------------------------------------------------------
(* handle_client, one action per step another thread can observe. *)

\* what no step of a session changes
config == <<active_platform, clients, env, proc, fragment, formatted>>
framer == <<stream, extracted>>
scratch == <<prompt, first_chunk_received, full_response_text, chunk_text, nevents>>

\* The session's thread ends (lines 422-426); its locals are gone.
Close(s) ==
    /\ pc' = [pc EXCEPT ![s] = "closed"]
    /\ prompt' = [prompt EXCEPT ![s] = <<>>]
    /\ first_chunk_received' = [first_chunk_received EXCEPT ![s] = FALSE]
    /\ full_response_text' = [full_response_text EXCEPT ![s] = <<>>]
    /\ chunk_text' = [chunk_text EXCEPT ![s] = <<>>]
    /\ nevents' = [nevents EXCEPT ![s] = 0]

\* An ending that sends the banner before the separator
FinishBannerFirst(s) ==
    IF conn[s] = "open"
    THEN /\ wire' = [wire EXCEPT ![s] = Write(Write(@, "banner"), "sep")]
         /\ pc' = [pc EXCEPT ![s] = "recv"]
         /\ prompt' = [prompt EXCEPT ![s] = <<>>]
         /\ first_chunk_received' = [first_chunk_received EXCEPT ![s] = FALSE]
         /\ full_response_text' = [full_response_text EXCEPT ![s] = <<>>]
         /\ chunk_text' = [chunk_text EXCEPT ![s] = <<>>]
         /\ nevents' = [nevents EXCEPT ![s] = 0]
    ELSE /\ Close(s)
         /\ UNCHANGED wire

\* Lines 412-414: the separator and the next banner, then back to recv. A
\* failed send leaves through the outer handler.
Finish(s) ==
    IF conn[s] = "open"
    THEN /\ wire' = [wire EXCEPT ![s] = Write(Write(@, "sep"), "banner")]
         /\ pc' = [pc EXCEPT ![s] = "recv"]
         /\ prompt' = [prompt EXCEPT ![s] = <<>>]
         /\ first_chunk_received' = [first_chunk_received EXCEPT ![s] = FALSE]
         /\ full_response_text' = [full_response_text EXCEPT ![s] = <<>>]
         /\ chunk_text' = [chunk_text EXCEPT ![s] = <<>>]
         /\ nevents' = [nevents EXCEPT ![s] = 0]
    ELSE /\ Close(s)
         /\ UNCHANGED wire

\* start_server's accept and the welcome message (lines 442-445, 230-234)
Accept(s) ==
    /\ s \in clients
    /\ pc[s] = "idle"
    /\ pc' = [pc EXCEPT ![s] = "recv"]
    /\ wire' = [wire EXCEPT ![s] = <<"welcome">>]
    /\ UNCHANGED <<config, framer, logged, scratch, stop_spinner, chat, pending, conn,
                   input_buffer, chat_history, sent, spinner>>

\* Lines 236-278 and 415-417: one receive of n bytes, the framing pass, and
\* the Thinking message or the banner.
Recv(s, n) ==
    /\ pc[s] = "recv"
    /\ conn[s] = "open"
    /\ n \in 1..Min(Len(pending[s]), BUFFER_SIZE)
    /\ LET data == Take(pending[s], n)
           f == Frame(input_buffer[s] \o decode(data))
       IN  /\ pending' = [pending EXCEPT ![s] = Drop(@, n)]
           /\ input_buffer' = [input_buffer EXCEPT ![s] = f.rest]
           /\ IF ~f.found
              THEN UNCHANGED <<pc, prompt, wire, logged>>
              ELSE IF Truthy(f.prompt)
              THEN /\ prompt' = [prompt EXCEPT ![s] = f.prompt]
                   /\ wire' = [wire EXCEPT ![s] = <<"thinking">>]
                   /\ logged' = [logged EXCEPT ![s] = FALSE]
                   /\ pc' = [pc EXCEPT ![s] = "start"]
              ELSE /\ wire' = [wire EXCEPT ![s] = <<"reprompt">>]
                   /\ logged' = [logged EXCEPT ![s] = FALSE]
                   /\ UNCHANGED <<pc, prompt>>
    /\ UNCHANGED <<config, framer, stop_spinner, chat, conn, chat_history,
                   first_chunk_received, full_response_text, chunk_text,
                   nevents, sent, spinner>>

\* Lines 236-238: recv on a connection the peer has left
RecvClosed(s) ==
    /\ pc[s] = "recv"
    /\ conn[s] = "broken"
    /\ Close(s)
    /\ UNCHANGED <<config, framer, logged, stop_spinner, chat, pending, conn,
                   input_buffer, chat_history, sent, spinner, wire>>

\* Lines 281-288: clear the event, start the spinner thread
StartSpinner(s) ==
    /\ pc[s] = "start"
    /\ stop_spinner' = FALSE
    /\ spinner' = [spinner EXCEPT ![s] = "check"]
    /\ first_chunk_received' = [first_chunk_received EXCEPT ![s] = FALSE]
    /\ full_response_text' = [full_response_text EXCEPT ![s] = <<>>]
    /\ pc' = [pc EXCEPT ![s] = "call"]
    /\ UNCHANGED <<config, framer, logged, chat, pending, conn, input_buffer, prompt,
                   chat_history, chunk_text, nevents, sent, wire>>

\* Lines 291-294, 313-321, 342-362: the request. The gemini handle answers
\* against the turns it holds, openai and anthropic against the list passed.
BackendCall(s) ==
    /\ pc[s] = "call"
    /\ chat_history' =
         [chat_history EXCEPT ![s] =
            IF active_platform = "openai"
            THEN Append(@, Turn("user", prompt[s], s)) ELSE @]
    /\ sent' =
         [sent EXCEPT ![s] =
            CASE active_platform = "gemini" ->
                   chat \o <<Turn("user", prompt[s], s)>>
              [] active_platform = "openai" -> chat_history'[s]
              [] OTHER -> anthropic_messages(chat_history[s], prompt[s], s)]
    /\ nevents' = [nevents EXCEPT ![s] = 0]
    /\ pc' = [pc EXCEPT ![s] = "stream"]
    /\ UNCHANGED <<config, framer, logged, stop_spinner, chat, pending, conn,
                   input_buffer, prompt, first_chunk_received,
                   full_response_text, chunk_text, spinner, wire>>

\* Lines 294-306 (322-335, 363-380): the stream yields an event. The first
\* chunk sends the session to stop the spinner; a later chunk's text is
\* accumulated and sent. A failed send is caught at line 394 with
\* first_chunk_received set, and the separator's send at line 413 fails too.
StreamEvent(s, ev) ==
    /\ pc[s] = "stream"
    /\ nevents[s] < MaxEvents
    /\ ev \in Events(active_platform)
    /\ IF ev.type = "other"
       THEN /\ nevents' = [nevents EXCEPT ![s] = @ + 1]
            /\ UNCHANGED <<pc, prompt, first_chunk_received,
                           full_response_text, chunk_text, wire, logged>>
       ELSE IF ~first_chunk_received[s]
       THEN /\ nevents' = [nevents EXCEPT ![s] = @ + 1]
            /\ chunk_text' = [chunk_text EXCEPT ![s] = ev.text]
            /\ pc' = [pc EXCEPT ![s] = "set_first"]
            /\ UNCHANGED <<prompt, first_chunk_received, full_response_text,
                           wire, logged>>
       ELSE IF ev.text = <<>>
       THEN /\ nevents' = [nevents EXCEPT ![s] = @ + 1]
            /\ UNCHANGED <<pc, prompt, first_chunk_received,
                           full_response_text, chunk_text, wire, logged>>
       ELSE IF conn[s] = "open"
       THEN /\ nevents' = [nevents EXCEPT ![s] = @ + 1]
            /\ full_response_text' =
                 [full_response_text EXCEPT ![s] = @ \o ev.text]
            /\ wire' = [wire EXCEPT ![s] = Write(@, "content")]
            /\ UNCHANGED <<pc, prompt, first_chunk_received, chunk_text,
                           logged>>
       ELSE /\ Close(s)
            /\ logged' = [logged EXCEPT ![s] = TRUE]
            /\ UNCHANGED wire
    /\ UNCHANGED <<config, framer, stop_spinner, chat, pending, conn,
                   input_buffer, chat_history, sent, spinner>>

\* What the gemini chat handle holds once a stream has ended. The handle is the
\* SDK's object made at line 77 and shared by every session (line 294): it
\* keeps its own history and records the exchange's two turns when the stream
\* is exhausted and the answer has text.
record_history(held, p, text, s) ==
    IF text # <<>>
    THEN held \o <<Turn("user", p, s), Turn("model", text, s)>>
    ELSE held

\* An anthropic branch that records the user turn of an answer without text
AppendResponseUserAlways(history, platform, p, text, s) ==
    CASE platform = "gemini" ->
           IF text = <<>> THEN history
           ELSE Append(history, Turn("model", text, s))
      [] platform = "openai" ->
           IF text = <<>> THEN history
           ELSE Append(history, Turn("assistant", text, s))
      [] OTHER ->
           IF text = <<>> THEN Append(history, Turn("user", p, s))
           ELSE history \o <<Turn("user", p, s), Turn("assistant", text, s)>>

\* Lines 308-310, 337-339, 382-385: the turns appended after the loop
AppendResponse(history, platform, p, text, s) ==
    IF text = <<>> THEN history
    ELSE CASE platform = "gemini" -> Append(history, Turn("model", text, s))
           [] platform = "openai" -> Append(history, Turn("assistant", text, s))
           [] OTHER -> history \o <<Turn("user", p, s),
                                    Turn("assistant", text, s)>>

\* The stream ends normally: the history is updated, and with no chunk
\* received yet the fallback of lines 406-408 stops the spinner.
StreamEnd(s) ==
    /\ pc[s] = "stream"
    /\ chat_history' =
         [chat_history EXCEPT ![s] =
            AppendResponse(@, active_platform, prompt[s],
                           full_response_text[s], s)]
    /\ chat' = IF active_platform = "gemini"
               THEN record_history(chat, prompt[s], full_response_text[s], s)
               ELSE chat
    /\ IF first_chunk_received[s]
       THEN Finish(s)
       ELSE /\ pc' = [pc EXCEPT ![s] = "set_fb"]
            /\ UNCHANGED <<scratch, wire>>
    /\ UNCHANGED <<config, framer, logged, stop_spinner, pending, conn, input_buffer,
                   sent, spinner>>

\* A handler that sends the error notice after the first chunk as well
StreamErrorShown(s) ==
    /\ pc[s] = "stream"
    /\ IF first_chunk_received[s]
       THEN /\ logged' = [logged EXCEPT ![s] = TRUE]
            /\ IF conn[s] = "open"
               THEN /\ wire' = [wire EXCEPT ![s] =
                                 @ \o <<"error", "sep", "banner">>]
                    /\ pc' = [pc EXCEPT ![s] = "recv"]
                    /\ prompt' = [prompt EXCEPT ![s] = <<>>]
                    /\ first_chunk_received' =
                         [first_chunk_received EXCEPT ![s] = FALSE]
                    /\ full_response_text' =
                         [full_response_text EXCEPT ![s] = <<>>]
                    /\ chunk_text' = [chunk_text EXCEPT ![s] = <<>>]
                    /\ nevents' = [nevents EXCEPT ![s] = 0]
               ELSE /\ Close(s)
                    /\ UNCHANGED wire
       ELSE /\ pc' = [pc EXCEPT ![s] = "set_exc"]
            /\ UNCHANGED <<scratch, wire, logged>>
    /\ UNCHANGED <<config, framer, stop_spinner, chat, pending, conn,
                   input_buffer, chat_history, sent, spinner>>

\* The backend raises (lines 394-402): before the first chunk the handler
\* stops the spinner, after it the error is only printed (line 402).
StreamError(s) ==
    /\ pc[s] = "stream"
    /\ IF first_chunk_received[s]
       THEN /\ logged' = [logged EXCEPT ![s] = TRUE]
            /\ Finish(s)
       ELSE /\ pc' = [pc EXCEPT ![s] = "set_exc"]
            /\ UNCHANGED <<scratch, wire, logged>>
    /\ UNCHANGED <<config, framer, stop_spinner, chat, pending, conn,
                   input_buffer, chat_history, sent, spinner>>

\* stop_spinner.set() of lines 297, 325, 367
SetStopFirst(s) ==
    /\ pc[s] = "set_first"
    /\ stop_spinner' = TRUE
    /\ pc' = [pc EXCEPT ![s] = "join_first"]
    /\ UNCHANGED <<config, framer, logged, scratch, chat, pending, conn, input_buffer,
                   chat_history, sent, spinner, wire>>

\* A join that does not wait for the thread
JoinedNoWait(s) == spinner[s] \in {"check", "glyph", "bs", "final", "dead"}

\* spinner_thread.join(): returns once the thread has ended
Joined(s) == spinner[s] = "dead"

\* Lines 298-306: join, the line break, then the first chunk's text. A failed
\* send of the line break is caught at line 394 with first_chunk_received
\* still unset.
JoinFirst(s) ==
    /\ pc[s] = "join_first"
    /\ Joined(s)
    /\ IF conn[s] = "open"
       THEN /\ first_chunk_received' =
                 [first_chunk_received EXCEPT ![s] = TRUE]
            /\ full_response_text' =
                 [full_response_text EXCEPT ![s] = @ \o chunk_text[s]]
            /\ wire' = [wire EXCEPT ![s] =
                          IF chunk_text[s] = <<>> THEN Write(@, "nl")
                          ELSE Write(Write(@, "nl"), "content")]
            /\ pc' = [pc EXCEPT ![s] = "stream"]
       ELSE /\ pc' = [pc EXCEPT ![s] = "set_exc"]
            /\ UNCHANGED <<first_chunk_received, full_response_text, wire>>
    /\ UNCHANGED <<config, framer, logged, stop_spinner, chat, pending, conn,
                   input_buffer, prompt, chat_history, chunk_text, nevents,
                   sent, spinner>>

\* stop_spinner.set() of line 397
SetStopExc(s) ==
    /\ pc[s] = "set_exc"
    /\ stop_spinner' = TRUE
    /\ pc' = [pc EXCEPT ![s] = "join_exc"]
    /\ UNCHANGED <<config, framer, logged, scratch, chat, pending, conn, input_buffer,
                   chat_history, sent, spinner, wire>>

\* A handler that lets the backend's error end the session
JoinExcEndsSession(s) ==
    /\ pc[s] = "join_exc"
    /\ Joined(s)
    /\ Close(s)
    /\ UNCHANGED <<config, framer, logged, stop_spinner, chat, pending, conn,
                   input_buffer, chat_history, sent, spinner, wire>>

\* Lines 398-399: join, then the error notice; a failed send ends the session
JoinExc(s) ==
    /\ pc[s] = "join_exc"
    /\ Joined(s)
    /\ IF conn[s] = "open"
       THEN /\ wire' = [wire EXCEPT ![s] = Write(@, "error")]
            /\ pc' = [pc EXCEPT ![s] = "set_fb"]
            /\ UNCHANGED scratch
       ELSE /\ Close(s)
            /\ UNCHANGED wire
    /\ UNCHANGED <<config, framer, logged, stop_spinner, chat, pending, conn,
                   input_buffer, chat_history, sent, spinner>>

\* stop_spinner.set() of line 407
SetStopFallback(s) ==
    /\ pc[s] = "set_fb"
    /\ stop_spinner' = TRUE
    /\ pc' = [pc EXCEPT ![s] = "join_fb"]
    /\ UNCHANGED <<config, framer, logged, scratch, chat, pending, conn, input_buffer,
                   chat_history, sent, spinner, wire>>

\* Lines 408-414: join, then the separator and the banner
JoinFallback(s) ==
    /\ pc[s] = "join_fb"
    /\ Joined(s)
    /\ Finish(s)
    /\ UNCHANGED <<config, framer, logged, stop_spinner, chat, pending, conn,
                   input_buffer, chat_history, sent, spinner>>

-----------------------------------------------------------------------------
(* spin_animation, the spinner thread (lines 159-181). *)

\* Line 163: the loop's test of the event
SpinCheck(s) ==
    /\ spinner[s] = "check"
    /\ spinner' = [spinner EXCEPT ![s] =
                     IF stop_spinner THEN "final" ELSE "glyph"]
    /\ UNCHANGED <<config, framer, logged, scratch, stop_spinner, chat, pending, conn,
                   pc, input_buffer, chat_history, sent, wire>>

\* A spinner whose failed send ends the thread at once
SpinGlyphNoClear(s) ==
    /\ spinner[s] = "glyph"
    /\ IF conn[s] = "open"
       THEN /\ wire' = [wire EXCEPT ![s] = Write(@, "glyph")]
            /\ spinner' = [spinner EXCEPT ![s] = "bs"]
       ELSE /\ spinner' = [spinner EXCEPT ![s] = "dead"]
            /\ UNCHANGED wire
    /\ UNCHANGED <<config, framer, logged, scratch, stop_spinner, chat, pending,
                   conn, pc, input_buffer, chat_history, sent>>

\* Line 166: the glyph; a failed send leaves the loop. Which of the four
\* spinner_chars is sent (i % 4) is not recorded.
SpinGlyph(s) ==
    /\ spinner[s] = "glyph"
    /\ IF conn[s] = "open"
       THEN /\ wire' = [wire EXCEPT ![s] = Write(@, "glyph")]
            /\ spinner' = [spinner EXCEPT ![s] = "bs"]
       ELSE /\ spinner' = [spinner EXCEPT ![s] = "final"]
            /\ UNCHANGED wire
    /\ UNCHANGED <<config, framer, logged, scratch, stop_spinner, chat, pending, conn,
                   pc, input_buffer, chat_history, sent>>

\* Lines 168-171: the backspace, then the sleep
SpinBackspace(s) ==
    /\ spinner[s] = "bs"
    /\ IF conn[s] = "open"
       THEN /\ wire' = [wire EXCEPT ![s] = Write(@, "bs")]
            /\ spinner' = [spinner EXCEPT ![s] = "check"]
       ELSE /\ spinner' = [spinner EXCEPT ![s] = "final"]
            /\ UNCHANGED wire
    /\ UNCHANGED <<config, framer, logged, scratch, stop_spinner, chat, pending, conn,
                   pc, input_buffer, chat_history, sent>>

\* Lines 178-181: the clearing space and backspace, errors ignored
SpinFinal(s) ==
    /\ spinner[s] = "final"
    /\ wire' = [wire EXCEPT ![s] =
                  IF conn[s] = "open" THEN Write(@, "clear") ELSE @]
    /\ spinner' = [spinner EXCEPT ![s] = "dead"]
    /\ UNCHANGED <<config, framer, logged, scratch, stop_spinner, chat, pending, conn,
                   pc, input_buffer, chat_history, sent>>

-----------------------------------------------------------------------------
(* The client. *)

\* The peer leaves: from now on the session's sends fail and recv is empty
ClientClose(s) ==
    /\ pc[s] \notin {"idle", "closed"}
    /\ conn[s] = "open"
    /\ conn' = [conn EXCEPT ![s] = "broken"]
    /\ UNCHANGED <<config, framer, logged, scratch, stop_spinner, chat, pending, pc,
                   input_buffer, chat_history, sent, spinner, wire>>

-----------------------------------------------------------------------------
(* The framer alone: lines 236-273 applied to one receive of n bytes of the  *)
(* first connection, the prompt it extracts recorded.                        *)

Feed(n) ==
    /\ n \in 1..Min(Len(pending[1]), BUFFER_SIZE)
    /\ LET data == Take(pending[1], n)
           f == Frame(input_buffer[1] \o decode(data))
       IN  /\ pending' = [pending EXCEPT ![1] = Drop(@, n)]
           /\ input_buffer' = [input_buffer EXCEPT ![1] = f.rest]
           /\ extracted' = IF f.found THEN Append(extracted, f.prompt)
                           ELSE extracted
    /\ UNCHANGED <<config, scratch, logged, stream, stop_spinner, chat, conn,
                   pc, chat_history, sent, spinner, wire>>

-----------------------------------------------------------------------------
(* Specifications. *)

InitCommon ==
    /\ stop_spinner = FALSE
    /\ chat = <<>>
    /\ conn = [s \in Sessions |-> "open"]
    /\ pc = [s \in Sessions |-> "idle"]
    /\ input_buffer = [s \in Sessions |-> <<>>]
    /\ prompt = [s \in Sessions |-> <<>>]
    /\ chat_history = [s \in Sessions |-> <<>>]
    /\ first_chunk_received = [s \in Sessions |-> FALSE]
    /\ full_response_text = [s \in Sessions |-> <<>>]
    /\ chunk_text = [s \in Sessions |-> <<>>]
    /\ nevents = [s \in Sessions |-> 0]
    /\ sent = [s \in Sessions |-> <<>>]
    /\ spinner = [s \in Sessions |-> "none"]
    /\ wire = [s \in Sessions |-> <<>>]
    /\ logged = [s \in Sessions |-> FALSE]
    /\ formatted = <<>>

\* The process after a start in which everything succeeded (lines 9-151, 431-
\* 436): the libraries imported, the key set, the client made, the socket
\* listening.
Running ==
    /\ env = [AI_PLATFORM |-> active_platform, genai |-> TRUE, lib |-> TRUE,
              key |-> TRUE, init_ok |-> TRUE, bind_ok |-> TRUE]
    /\ proc = "listening"

Next ==
    \E s \in Sessions :
        \/ Accept(s)
        \/ \E n \in 1..Len(pending[s]) : Recv(s, n)
        \/ RecvClosed(s)
        \/ StartSpinner(s)
        \/ BackendCall(s)
        \/ \E ev \in Events(active_platform) : StreamEvent(s, ev)
        \/ StreamEnd(s)
        \/ StreamError(s)
        \/ SetStopFirst(s)
        \/ JoinFirst(s)
        \/ SetStopExc(s)
        \/ JoinExc(s)
        \/ SetStopFallback(s)
        \/ JoinFallback(s)
        \/ SpinCheck(s)
        \/ SpinGlyph(s)
        \/ SpinBackspace(s)
        \/ SpinFinal(s)
        \/ ClientClose(s)

(* Spec: two connections at once, each client typing one prompt. *)

Init ==
    /\ InitCommon
    /\ fragment = <<>>
    /\ active_platform \in Platforms
    /\ Running
    /\ clients = Sessions
    /\ pending = [s \in Sessions |-> <<97, LF, LF>>]
    /\ stream = <<>>
    /\ extracted = <<>>

Spec == Init /\ [][Next]_vars

(* FairSpec: Spec with every thread of the program scheduled fairly. The     *)
(* backend and the clients owe nothing: the stream's events, the received    *)
(* bytes and the peer's leaving are not fair.                                *)

ThreadStep(s) ==
    \/ Accept(s)
    \/ RecvClosed(s)
    \/ StartSpinner(s)
    \/ BackendCall(s)
    \/ SetStopFirst(s)
    \/ JoinFirst(s)
    \/ SetStopExc(s)
    \/ JoinExc(s)
    \/ SetStopFallback(s)
    \/ JoinFallback(s)

SpinnerStep(s) ==
    \/ SpinCheck(s)
    \/ SpinGlyph(s)
    \/ SpinBackspace(s)
    \/ SpinFinal(s)

FairSpec ==
    /\ Spec
    /\ \A s \in Sessions : WF_vars(ThreadStep(s)) /\ WF_vars(SpinnerStep(s))

(* SpecSession: one connection, the client typing one of several inputs. *)

SessionInputs ==
    { <<97, LF, LF, 97, LF, LF, 97, LF, LF>>,
      <<LF, LF, 97, LF, LF>>,
      <<32, CR, LF, CR, LF, 47, 97, LF, LF>>,
      <<62, 32, 97, CR, LF, CR, LF>>,
      <<47, LF, LF, 255, 97, LF, LF>> }

InitSession ==
    /\ InitCommon
    /\ fragment = <<>>
    /\ active_platform \in Platforms
    /\ Running
    /\ clients = {1}
    /\ pending \in {[s \in Sessions |-> IF s = 1 THEN in ELSE <<>>] :
                      in \in SessionInputs}
    /\ stream = <<>>
    /\ extracted = <<>>

SpecSession == InitSession /\ [][Next]_vars

(* SpecFramer: every byte sequence up to MaxStreamLen, received in every     *)
(* split.                                                                    *)

FramerBytes == {97, LF, CR, 255}

RECURSIVE SeqsUpTo(_, _)
SeqsUpTo(S, n) ==
    IF n = 0 THEN {<<>>}
    ELSE LET shorter == SeqsUpTo(S, n - 1)
         IN  shorter \cup {Append(q, b) : q \in shorter, b \in S}

InitFramer ==
    /\ InitCommon
    /\ fragment = <<>>
    /\ active_platform = "gemini"
    /\ Running
    /\ clients = {1}
    /\ stream \in SeqsUpTo(FramerBytes, MaxStreamLen)
    /\ pending = [s \in Sessions |-> IF s = 1 THEN stream ELSE <<>>]
    /\ extracted = <<>>

NextFramer == \E n \in 1..Len(pending[1]) : Feed(n)

SpecFramer == InitFramer /\ [][NextFramer]_vars

(* SpecHist: one connection on which the client types HistPrompts prompts,   *)
(* one per receive, and the backend answers each with one fragment.          *)

RECURSIVE Repeat(_, _)
Repeat(q, k) == IF k = 0 THEN <<>> ELSE q \o Repeat(q, k - 1)

InitHist ==
    /\ InitCommon
    /\ fragment = <<>>
    /\ active_platform \in Platforms
    /\ Running
    /\ clients = {1}
    /\ pending = [s \in Sessions |->
                    IF s = 1 THEN Repeat(<<97, LF, LF>>, HistPrompts) ELSE <<>>]
    /\ stream = <<>>
    /\ extracted = <<>>

NextHist ==
    \E s \in Sessions :
        \/ Accept(s)
        \/ Recv(s, 3)
        \/ StartSpinner(s)
        \/ BackendCall(s)
        \/ ~first_chunk_received[s]
             /\ StreamEvent(s, [type |-> "delta", text |-> <<120>>])
        \/ first_chunk_received[s] /\ StreamEnd(s)
        \/ SetStopFirst(s)
        \/ JoinFirst(s)
        \/ SpinCheck(s)
        \/ SpinGlyph(s)
        \/ SpinBackspace(s)
        \/ SpinFinal(s)

SpecHist == InitHist /\ [][NextHist]_vars

(* SpecSanitizer: format_chunk applied, and applied again to its result, on  *)
(* every fragment up to MaxFragmentLen.                                      *)

\* '*', ' ', '`', '>', '&', 'g', 't', ';', '\n', '\r'
SanitizerChars == {STAR, 32, 96, 62, 38, 103, 116, 59, LF, CR}

Sanitize ==
    /\ Len(formatted) < MaxPasses
    /\ formatted' = Append(formatted,
                           format_chunk(IF formatted = <<>> THEN fragment
                                        ELSE formatted[Len(formatted)]))
    /\ UNCHANGED <<active_platform, clients, env, proc, fragment, framer,
                   logged, scratch, stop_spinner, chat, pending, conn, pc,
                   input_buffer, chat_history, sent, spinner, wire>>

InitSanitizer ==
    /\ InitCommon
    /\ fragment \in SeqsUpTo(SanitizerChars, MaxFragmentLen)
    /\ active_platform = "gemini"
    /\ Running
    /\ clients = {}
    /\ pending = [s \in Sessions |-> <<>>]
    /\ stream = <<>>
    /\ extracted = <<>>

NextSanitizer == Sanitize

SpecSanitizer == InitSanitizer /\ [][NextSanitizer]_vars

(* SpecStartup: the module is loaded in every environment, up to the        *)
(* listening socket.                                                         *)

\* Everything but the platform, the environment and the process
sessions == <<stop_spinner, chat, clients, pending, conn, pc, input_buffer,
              scratch, chat_history, sent, spinner, wire, framer, logged,
              fragment, formatted>>

\* The environments: the value of AI_PLATFORM, whether google.genai was
\* imported, whether the selected platform's class (OpenAI, Anthropic) was,
\* whether the selected platform's key is set, whether the client's
\* construction succeeds, and whether the port can be bound.
Environments ==
    [AI_PLATFORM : Platforms \cup {"other"}, genai : BOOLEAN, lib : BOOLEAN,
     key : BOOLEAN, init_ok : BOOLEAN, bind_ok : BOOLEAN]

\* Lines 70-143: the value active_platform is left with; "none" is None.
\* The first handler of the gemini branch (lines 79-81) takes every exception
\* of the construction and sets the platform all the same.
InitializePlatform(e) ==
    CASE e.AI_PLATFORM = "gemini" ->
           IF e.genai /\ e.key
           THEN (IF e.init_ok THEN "gemini" ELSE "gemini")
           ELSE "none"
      [] e.AI_PLATFORM \in {"openai", "anthropic"} ->
           IF e.lib /\ e.key
           THEN (IF e.init_ok THEN e.AI_PLATFORM ELSE "none")
           ELSE "none"
      [] OTHER -> "none"

\* Lines 11-31: the imports. A failed import of google.genai leaves the name
\* genai unbound and the test of line 29 raises NameError.
ImportLibraries ==
    /\ proc = "loading"
    /\ proc' = IF env.genai THEN "loaded" ELSE "exited"
    /\ UNCHANGED <<active_platform, env, sessions>>

\* Lines 63-143
Initialize ==
    /\ proc = "loaded"
    /\ active_platform' = InitializePlatform(env)
    /\ proc' = "initialized"
    /\ UNCHANGED <<env, sessions>>

\* Lines 147-153: sys.exit(1) without a platform
CheckPlatform ==
    /\ proc = "initialized"
    /\ proc' = IF active_platform = "none" THEN "exited" ELSE "main"
    /\ UNCHANGED <<active_platform, env, sessions>>

\* Lines 431-436: bind and listen; a failed bind is not caught
Listen ==
    /\ proc = "main"
    /\ proc' = IF env.bind_ok THEN "listening" ELSE "exited"
    /\ UNCHANGED <<active_platform, env, sessions>>

InitStartup ==
    /\ InitCommon
    /\ fragment = <<>>
    /\ active_platform = "none"
    /\ env \in Environments
    /\ proc = "loading"
    /\ clients = {}
    /\ pending = [s \in Sessions |-> <<>>]
    /\ stream = <<>>
    /\ extracted = <<>>

NextStartup ==
    \/ ImportLibraries
    \/ Initialize
    \/ CheckPlatform
    \/ Listen

SpecStartup == InitStartup /\ [][NextStartup]_vars

-----------------------------------------------------------------------------
(* Claims of the two-connection runs. *)

JoinPcs == {"join_first", "join_exc", "join_fb"}

\* The session runs an exchange and has not yet asked its indicator to stop.
NotYetStopped(s) ==
    \/ pc[s] \in {"call", "set_first"}
    \/ pc[s] = "stream" /\ ~first_chunk_received[s]

\* C1: on every connection, within one exchange, no indicator write (glyph,
\* backspace, clearing space+backspace) follows the line break, a content
\* write or the error notice.
C1_IndicatorTornDownBeforeContent ==
    \A s \in Sessions :
        \A j, k \in DOMAIN wire[s] :
            (j < k /\ wire[s][j] \in {"nl", "content", "error"})
                => wire[s][k] \notin IndicatorTags

\* A connection that got glyphs, the clearing write and then content, while
\* the other session is inside an exchange of its own.
C1_Witness ==
    \E s, t \in Sessions :
        /\ s # t
        /\ \E i, j, k \in DOMAIN wire[s] :
              /\ i < j /\ j < k
              /\ wire[s][i] = "glyph"
              /\ wire[s][j] = "clear"
              /\ wire[s][k] = "content"
        /\ pc[t] \in {"call", "stream", "set_first", "join_first"}

\* C2: an indicator leaves its loop only for a reason of its own session. As
\* long as the session has not asked for the stop and its connection is
\* unbroken, its indicator is inside the loop.
C2_StopsOnlyByOwnSession ==
    \A s \in Sessions :
        (NotYetStopped(s) /\ conn[s] = "open")
            => spinner[s] \in {"check", "glyph", "bs"}

\* C3: a session waiting in join for its indicator's teardown stops waiting,
\* under fair scheduling of the program's threads.
C3_JoinEnds ==
    \A s \in Sessions : (pc[s] \in JoinPcs) ~> (pc[s] \notin JoinPcs)

\* C4: every turn of the conversation an exchange is answered against was
\* produced by an exchange of the same session.
C4_ConversationOwned ==
    \A s \in Sessions :
        \A k \in DOMAIN sent[s] : sent[s][k].sid = s

-----------------------------------------------------------------------------
(* Claims of the history runs. *)

\* C5: a session's conversation history never holds more than 50 turns.
C5_HistoryAtMost50 ==
    \A s \in Sessions : Len(chat_history[s]) <= 50

-----------------------------------------------------------------------------
(* Claims of the framer runs. *)

\* The bytes the step under way has received on the first connection
Received == Take(pending[1], Len(pending[1]) - Len(pending'[1]))

\* The prompts extracted when all of the bytes arrive in one receive
OneReceive(bytes) ==
    LET f == Frame(decode(bytes))
    IN  IF f.found THEN <<f.prompt>> ELSE <<>>

\* C6: once all bytes are received, in whatever split, the prompts extracted
\* are those extracted when the bytes arrive in a single receive.
C6_ChunkBoundaryInvariance ==
    pending[1] = <<>> => extracted = OneReceive(stream)

\* C7: a receive after which the buffer holds a double CRLF consumes the
\* buffer up to the end of the first double CRLF, whatever double LF comes
\* before it; with no double CRLF and a double LF, up to the end of the first
\* double LF. The prompt is the text before that signal.
C7_CrlfWins ==
    [][ pending'[1] # pending[1] =>
          LET buf == input_buffer[1] \o decode(Received)
              rest == input_buffer'[1]
              consumed == Take(buf, Len(buf) - Len(rest))
          IN  /\ find(buf, CRLFCRLF) # -1 =>
                    /\ buf = consumed \o rest
                    /\ Len(consumed) >= 4
                    /\ find(consumed, CRLFCRLF) = Len(consumed) - 4
                    /\ extracted' = Append(extracted,
                           ExtractPrompt(consumed, Len(consumed) - 4))
              /\ (find(buf, CRLFCRLF) = -1 /\ find(buf, LFLF) # -1) =>
                    /\ buf = consumed \o rest
                    /\ Len(consumed) >= 2
                    /\ find(consumed, LFLF) = Len(consumed) - 2
                    /\ extracted' = Append(extracted,
                           ExtractPrompt(consumed, Len(consumed) - 2))
      ]_vars

\* A buffer with a double LF ahead of a double CRLF, received at once and
\* cut after the double CRLF: one prompt, and what followed the CRLFs left.
C7_Witness ==
    LET buf == decode(stream)
    IN  /\ pending[1] = <<>>
        /\ find(buf, LFLF) # -1
        /\ find(buf, LFLF) < find(buf, CRLFCRLF)
        /\ Len(extracted) = 1
        /\ input_buffer[1] = Drop(buf, find(buf, CRLFCRLF) + 4)

\* C8 as amended: when a receive extracts a prompt, the new buffer is what
\* followed a signal in the old buffer extended by the decoded bytes; when it
\* extracts none, the new buffer is the old one with the decoded bytes (the
\* received bytes less those outside ASCII) appended.
C8_RestFollowsSignal ==
    [][ pending'[1] # pending[1] =>
          LET buf == input_buffer[1] \o decode(Received)
              rest == input_buffer'[1]
          IN  IF extracted' # extracted
              THEN \E term \in {CRLFCRLF, LFLF} :
                     \E k \in 0..Len(buf) :
                        buf = Take(buf, k) \o term \o rest
              ELSE rest = buf
      ]_vars

\* C8 as claimed: the same of the old buffer extended by the received bytes.
C8_ReceivedBytesAppended ==
    [][ pending'[1] # pending[1] =>
          LET buf == input_buffer[1] \o Received
              rest == input_buffer'[1]
          IN  IF extracted' # extracted
              THEN \E term \in {CRLFCRLF, LFLF} :
                     \E k \in 0..Len(buf) :
                        buf = Take(buf, k) \o term \o rest
              ELSE rest = buf
      ]_vars

\* The bytes a, LF, LF, a received: the prompt a extracted, a left pending.
C8_Witness ==
    /\ stream = <<97, LF, LF, 97>>
    /\ pending[1] = <<>>
    /\ extracted = << <<97>> >>
    /\ input_buffer[1] = <<97>>

-----------------------------------------------------------------------------
(* Claims of the one-connection runs. *)

\* The step under way is a receive of session s that finds a completion
\* signal with nothing but whitespace before it.
EmptyExtraction(s) ==
    /\ pc[s] = "recv"
    /\ pending'[s] # pending[s]
    /\ LET data == Take(pending[s], Len(pending[s]) - Len(pending'[s]))
           buf == input_buffer[s] \o decode(data)
           crlf == find(buf, CRLFCRLF)
           lf == find(buf, LFLF)
       IN  /\ crlf # -1 \/ lf # -1
           /\ strip(Take(buf, IF crlf # -1 THEN crlf ELSE lf)) = <<>>

\* C9: a receive that extracts an empty prompt writes the banner and nothing
\* else, stays at recv, starts no indicator, gives the backend nothing and
\* leaves the history as it was.
C9_EmptyPromptOnlyBanner ==
    [][ \A s \in Sessions :
          EmptyExtraction(s) =>
            /\ wire'[s] = <<"reprompt">>
            /\ pc'[s] = "recv"
            /\ spinner' = spinner
            /\ stop_spinner' = stop_spinner
            /\ sent' = sent
            /\ chat' = chat
            /\ chat_history' = chat_history
      ]_vars

\* The banner just written for an empty prompt, the session back at recv.
C9_Witness ==
    \E s \in Sessions :
        /\ wire[s] = <<"reprompt">>
        /\ pc[s] = "recv"
        /\ pending[s] # <<>>

\* C10: no prompt that begins with '/' is part of a conversation given to the
\* backend or of the history.
C10_SlashNeverReachesBackend ==
    \A s \in Sessions :
        /\ \A k \in DOMAIN sent[s] : ~startswith(sent[s][k].content, <<47>>)
        /\ \A k \in DOMAIN chat_history[s] :
              ~startswith(chat_history[s][k].content, <<47>>)

Has(w, tag) == \E i \in 1..Len(w) : w[i] = tag

EndsWith(w, tail) ==
    /\ Len(w) >= Len(tail)
    /\ SubSeq(w, Len(w) - Len(tail) + 1, Len(w)) = tail

\* The session's indicator thread is running.
Alive(s) == spinner[s] \in {"check", "glyph", "bs", "final"}

\* C16: a session that is waiting for input, is about to start an indicator,
\* or has ended (after a disconnect, a failed write or an error inside an
\* exchange) has no indicator thread alive: the thread of one exchange has
\* ended before the next is started, and none is left behind.
C16_NoIndicatorOutsideExchange ==
    \A s \in Sessions :
        pc[s] \in {"idle", "recv", "start", "closed"} => ~Alive(s)

\* A session ended by a failed write inside an exchange whose indicator ran.
C16_Witness ==
    \E s \in Sessions :
        /\ pc[s] = "closed"
        /\ spinner[s] = "dead"
        /\ Has(wire[s], "glyph")
        /\ ~Has(wire[s], "banner")

-----------------------------------------------------------------------------
(* Claims about the ways an exchange ends. *)

\* C11: when the backend fails before any fragment, the session first stops
\* its indicator (nothing is written until the indicator's thread has ended),
\* then writes the error notice, then the separator and the next banner, and
\* is receiving again; a session ends only when its connection has failed,
\* never because of the backend's error.
C11_ErrorNoticeThenNextPrompt ==
    [][\A s \in Sessions :
         /\ (pc[s] = "stream" /\ pc'[s] = "set_exc") =>
               ~first_chunk_received[s] /\ wire'[s] = wire[s]
         /\ (pc[s] = "set_exc" /\ pc'[s] # "set_exc") =>
               pc'[s] = "join_exc" /\ stop_spinner' /\ wire'[s] = wire[s]
         /\ (pc[s] = "join_exc" /\ pc'[s] # "join_exc" /\ conn[s] = "open") =>
               /\ spinner[s] = "dead"
               /\ wire'[s] = Append(wire[s], "error")
               /\ pc'[s] = "set_fb"
         /\ ( /\ pc[s] \in {"set_fb", "join_fb"}
              /\ pc'[s] \notin {"set_fb", "join_fb"}
              /\ Has(wire[s], "error")
              /\ conn[s] = "open" ) =>
               /\ wire'[s] = wire[s] \o <<"sep", "banner">>
               /\ pc'[s] = "recv"
         /\ (pc[s] # "closed" /\ pc'[s] = "closed") => conn[s] = "broken"
      ]_vars

\* The error notice, the separator and the banner are out, the session is
\* receiving and bytes of the client are still to come.
C11_Witness ==
    \E s \in Sessions :
        /\ pc[s] = "recv"
        /\ conn[s] = "open"
        /\ EndsWith(wire[s], <<"clear", "error", "sep", "banner">>)
        /\ pending[s] # <<>>

\* C12: when the backend fails after a fragment has arrived (the failure is
\* printed on the server only, line 402) and the connection is open, nothing
\* about the error is written to the client: the writes of the exchange end
\* with the separator and the banner after the content, and the session is
\* receiving again.
C12_LateErrorNotShown ==
    [][\A s \in Sessions :
         (logged'[s] /\ ~logged[s] /\ conn[s] = "open") =>
            /\ first_chunk_received[s]
            /\ Has(wire[s], "nl")
            /\ wire'[s] = wire[s] \o <<"sep", "banner">>
            /\ ~Has(wire'[s], "error")
            /\ pc'[s] = "recv"
      ]_vars

\* A failure after streamed content: the session is receiving again.
C12_Witness ==
    \E s \in Sessions :
        /\ logged[s]
        /\ pc[s] = "recv"
        /\ conn[s] = "open"
        /\ EndsWith(wire[s], <<"content", "sep", "banner">>)
        /\ pending[s] # <<>>

\* C13: at the step that ends an exchange and returns the session to
\* receiving (after a normal end, an end with no text, a failure before any
\* fragment or a failure after fragments), on each platform, the session's
\* history ends with the user turn of the exchange, followed by an assistant
\* turn holding the accumulated text if and only if there is any text.
C13_HistoryGainsExchange ==
    [][\A s \in Sessions :
         (pc[s] \in {"stream", "join_fb"} /\ pc'[s] = "recv") =>
            LET h == chat_history'[s]
                n == Len(h)
                p == prompt[s]
                t == full_response_text[s]
            IN  IF t = <<>>
                THEN /\ n >= 1
                     /\ h[n].role = "user" /\ h[n].content = p
                ELSE /\ n >= 2
                     /\ h[n - 1].role = "user" /\ h[n - 1].content = p
                     /\ h[n].role \in {"assistant", "model"}
                     /\ h[n].content = t
      ]_vars

\* The writes that may directly follow the write x in one exchange; notice
\* says whether the error notice is among the exchange's writes.
After(x, notice) ==
    CASE x = "thinking" -> IndicatorTags
      [] x \in IndicatorTags ->
           IndicatorTags \cup {"nl", "sep"} \cup
           (IF notice THEN {"error"} ELSE {})
      [] x = "nl" -> {"content", "sep"}
      [] x = "content" -> {"content", "sep"}
      [] x = "error" -> {"sep"}
      [] x = "sep" -> {"banner"}
      [] OTHER -> {}

\* The writes since the last extraction are in order, and once the session
\* is receiving again on an open connection they end with the separator and
\* the banner.
InOrder(s, notice) ==
    /\ \A i \in 1..(Len(wire[s]) - 1) :
          wire[s][i + 1] \in After(wire[s][i], notice)
    /\ ( /\ pc[s] = "recv"
         /\ conn[s] = "open"
         /\ wire[s] # <<>>
         /\ wire[s][1] = "thinking" ) =>
           EndsWith(wire[s], <<"sep", "banner">>)

\* C15, as amended: the writes of an exchange are the Thinking message, then
\* only indicator bytes, then either one line break followed by the fragments
\* (when a fragment arrived) or the error notice (when the backend failed
\* before any fragment) or neither, then the separator once and the banner
\* once, and nothing after the banner until the next extraction.
C15_WriteOrderWithNotice == \A s \in Sessions : InOrder(s, TRUE)

\* An exchange with fragments has run to its banner.
C15_Witness ==
    \E s \in Sessions :
        /\ pc[s] = "recv"
        /\ conn[s] = "open"
        /\ wire[s][1] = "thinking"
        /\ Has(wire[s], "glyph")
        /\ EndsWith(wire[s], <<"clear", "nl", "content", "content", "sep",
                               "banner">>)

\* C15, as stated: the same order with no write other than the Thinking
\* message, indicator bytes, the line break, fragments, the separator and the
\* banner.
C15_WriteOrder == \A s \in Sessions : InOrder(s, FALSE)

\* C18: the stop request (set the event, join the thread) is performed once
\* in an exchange: when a join has returned, the session does not go on to
\* another stop request of the same exchange.
C18_StoppedOnce ==
    [][\A s \in Sessions :
         pc[s] \in JoinPcs => pc'[s] \notin {"set_first", "set_exc", "set_fb"}
      ]_vars

\* C19: an indicator thread leaves its loop, on the stop request and on a
\* failed write alike, only to the clearing write of a space and a backspace,
\* and ends with that one attempt: on an open connection the step writes the
\* clearing bytes, on a failed one it writes nothing, and in both it changes
\* neither the session's position nor the connection. No other step writes
\* the clearing bytes or ends the thread.
C19_IndicatorEndsWithClear ==
    [][\A s \in Sessions :
         /\ ( /\ spinner[s] \in {"check", "glyph", "bs"}
              /\ spinner'[s] # spinner[s] ) =>
               spinner'[s] \in {"check", "glyph", "bs", "final"}
         /\ (spinner[s] = "final" /\ spinner'[s] # "final") =>
               /\ spinner'[s] = "dead"
               /\ wire'[s] = IF conn[s] = "open"
                             THEN Append(wire[s], "clear") ELSE wire[s]
               /\ pc'[s] = pc[s]
               /\ conn'[s] = conn[s]
         /\ (spinner'[s] = "dead" /\ spinner[s] # "dead") =>
               spinner[s] = "final"
         /\ ( /\ wire'[s] # wire[s]
              /\ wire'[s] # <<>>
              /\ wire'[s][Len(wire'[s])] = "clear" ) =>
               spinner[s] = "final" /\ spinner'[s] = "dead"
      ]_vars

\* A thread whose glyph could not be written has ended, its clearing write
\* failed, and the session is still waiting for the backend.
C19_Witness ==
    \E s \in Sessions :
        /\ spinner[s] = "dead"
        /\ conn[s] = "broken"
        /\ ~stop_spinner
        /\ ~Has(wire[s], "clear")
        /\ pc[s] = "stream"
        /\ ~first_chunk_received[s]

\* The bytes the session receives in the step
ReceivedBy(s) == Take(pending[s], Len(pending[s]) - Len(pending'[s]))

\* The buffer holds a completion signal.
HasSignal(buf) == find(buf, CRLFCRLF) # -1 \/ find(buf, LFLF) # -1

\* Where the first prompt of a buffer with a signal ends, its signal included
FirstPromptEnd(buf) ==
    IF find(buf, CRLFCRLF) # -1 THEN find(buf, CRLFCRLF) + 4
    ELSE find(buf, LFLF) + 2

\* C20: a session begins an exchange, or writes a banner for an empty prompt,
\* only in a step that receives bytes, and a receive after which the buffer
\* holds two or more complete prompts takes the first alone: one Thinking
\* message or one banner is written, and everything after the first prompt's
\* signal, the other complete prompts included, is the buffer it leaves.
C20_OnePromptPerReceive ==
    [][\A s \in Sessions :
         /\ (pc[s] = "recv" /\ (pc'[s] = "start" \/ wire'[s] # wire[s])) =>
               pending'[s] # pending[s]
         /\ pending'[s] # pending[s] =>
               LET buf == input_buffer[s] \o decode(ReceivedBy(s))
                   others == Drop(buf, FirstPromptEnd(buf))
               IN  (HasSignal(buf) /\ HasSignal(others)) =>
                      /\ input_buffer'[s] = others
                      /\ pc'[s] \in {"start", "recv"}
                      /\ wire'[s] \in {<<"thinking">>, <<"reprompt">>}
      ]_vars

\* The first prompt has been answered, no byte is left to receive, and the
\* session waits at recv with a complete prompt in its buffer.
C20_Witness ==
    \E s \in Sessions :
        /\ pc[s] = "recv"
        /\ conn[s] = "open"
        /\ pending[s] = <<>>
        /\ HasSignal(input_buffer[s])
        /\ EndsWith(wire[s], <<"content", "sep", "banner">>)
        /\ ~logged[s]

-----------------------------------------------------------------------------
(* Claims about the replayed history. *)

\* The list starts and ends with a user turn.
UserAtBothEnds(m) ==
    m # <<>> => m[1].role = "user" /\ m[Len(m)].role = "user"

\* User and assistant turns alternate strictly.
Alternates(m) ==
    /\ \A i \in 1..Len(m) : m[i].role \in {"user", "assistant"}
    /\ \A i \in 1..(Len(m) - 1) : m[i].role # m[i + 1].role

\* C21, as amended: the message list sent for an exchange starts and ends
\* with a user turn on both replaying platforms and never has two assistant
\* turns in a row; on anthropic it alternates strictly, while on openai the
\* user turn of an exchange that failed or had no text stays in the list.
C21_ReplayedListShape ==
    active_platform \in {"openai", "anthropic"} =>
        \A s \in Sessions :
            /\ UserAtBothEnds(sent[s])
            /\ \A i \in 1..(Len(sent[s]) - 1) :
                  sent[s][i].role = "assistant" =>
                      sent[s][i + 1].role = "user"
            /\ active_platform = "anthropic" => Alternates(sent[s])

\* The third exchange of an anthropic session, one of the two before it
\* having left nothing in the history.
C21_Witness ==
    /\ active_platform = "anthropic"
    /\ \E s \in Sessions :
          /\ Len(sent[s]) = 3
          /\ sent[s][1].content = <<97>>
          /\ sent[s][3].content = <<97>>
          /\ pending[s] = <<>>
          /\ input_buffer[s] = <<>>
          /\ pc[s] = "stream"

\* C21, as stated: on openai and on anthropic the message list sent for an
\* exchange alternates strictly and starts and ends with a user turn.
C21_ReplayedListAlternates ==
    active_platform \in {"openai", "anthropic"} =>
        \A s \in Sessions :
            UserAtBothEnds(sent[s]) /\ Alternates(sent[s])

\* C22: on anthropic a step changes a session's history only when the stream
\* ends normally with text, and then by appending the user turn of the
\* exchange followed by the assistant turn with the whole accumulated text;
\* a failure (before or after fragments, or of a write) and an end without
\* text leave the history as it was.
C22_AnthropicHistoryAtomic ==
    [][active_platform = "anthropic" =>
         \A s \in Sessions :
            LET ended == /\ pc[s] = "stream"
                         /\ pc'[s] \in {"recv", "closed", "set_fb"}
                         /\ ~logged'[s]
            IN  IF ended /\ full_response_text[s] # <<>>
                THEN chat_history'[s] =
                       chat_history[s] \o
                         <<Turn("user", prompt[s], s),
                           Turn("assistant", full_response_text[s], s)>>
                ELSE chat_history'[s] = chat_history[s]
      ]_vars

\* An answered exchange left two turns; a later exchange failed after text
\* had been streamed and the history still holds the two.
C22_Witness ==
    /\ active_platform = "anthropic"
    /\ \E s \in Sessions :
          /\ logged[s]
          /\ pc[s] = "recv"
          /\ Len(chat_history[s]) = 2
          /\ Has(wire[s], "content")

-----------------------------------------------------------------------------
(* Claims about format_chunk. *)

\* C17: format_chunk applied to its own result gives that result again.
C17_FormatChunkIdempotent ==
    Len(formatted) >= 2 => formatted[2] = formatted[1]

-----------------------------------------------------------------------------
(* Claims about the start of the process. *)

\* C14: the process is listening only if the selected platform is one of the
\* three supported names, its credential is set and the construction of its
\* client succeeded.
C14_ListensOnlyInitialized ==
    proc = "listening" =>
        /\ env.AI_PLATFORM \in Platforms
        /\ env.key
        /\ env.init_ok

====
